---- MODULE Spec2Model ----
(***************************************************************************)
(* Model of src/datavotes.js: the votes table behind the mysql pool, the   *)
(* schema initialisation with retries (initializeDatabase), and the poll   *)
(* cycle pollVotes -> fetchVotesFromApi -> getStoredVotes /                 *)
(* saveVotesToDatabase, run by one or more overlapping /voting commands.    *)
(* Every await of the source is one step: the step is the completion of    *)
(* the awaited I/O together with the synchronous code that follows it up   *)
(* to the next await.                                                      *)
(***************************************************************************)
EXTENDS Integers, Sequences, FiniteSets, TLC

\* ---------------------------------------------------------------- bounds
\* number of configured source URLs (apiUrls) and of /voting commands issued
NumSources == 2
NumCycles == 2

\* ------------------------------------------------------- program constants
maxRetries == 5

Sources == 1..NumSources
Cycles == 1..NumCycles
Nicknames == {"x", "y"}

VoterRecord(n, v) == [nickname |-> n, votes |-> v]

\* The voters arrays a source may serve. votes is whatever integer the JSON
\* body carries: nothing in lines 94-103 tests its sign.
Payloads ==
    { << >>,
      << VoterRecord("x", 3) >>,
      << VoterRecord("x", 2), VoterRecord("y", 1) >>,
      << VoterRecord("y", 1), VoterRecord("y", 2) >>,
      << VoterRecord("x", -1) >> }

VARIABLES
    initPc,       \* position of initializeDatabase
    retries,      \* its local counter
    schema,       \* the votes table exists (a fresh database has none)
    table,        \* rows of the votes table, in insertion order
    now,          \* database clock, advanced by every committed statement
    payload,      \* the voters array each source serves
    pc,           \* position of each poll cycle
    src,          \* index of the source a cycle is processing
    newVotes,     \* fetchVotesFromApi's newVotes while saveVotesToDatabase runs
    result,       \* pollVotes' newVotes accumulator
    pending,      \* db.execute statements in flight
    startNicks,   \* history: nicknames in the table when the cycle started
    log,          \* history: the I/O each cycle did, in order
    written,      \* history: the batches each cycle handed to saveVotesToDatabase
    issued,       \* history: votes handed to db.execute, per nickname
    dropped,      \* history: votes of the statements that failed, per nickname
    committed,    \* history: votes of the statements that committed, per nickname
    persistFailed, \* history: cycles one of whose statements failed
    missed,       \* history: cycles one of whose reads failed and hid stored rows
    doneBefore    \* history: the cycles that had returned when the cycle started

vars == << initPc, retries, schema, table, now, payload, pc,
           src, newVotes, result, pending, startNicks, log, written, issued,
           dropped, committed, persistFailed, missed, doneBefore >>

guardVars == << initPc, retries >>
pollVars == << pc, src, newVotes, result >>
storeVars == << schema, table, now, pending >>
histVars == << startNicks, log, written, issued, dropped, committed, persistFailed,
              missed, doneBefore >>

\* ------------------------------------------------------------ the table
\* a filter whose predicate is always true
FilterSeq_keep(s, known) == s

RECURSIVE FilterSeq(_, _)
\* Array.prototype.filter with the predicate of line 102
FilterSeq(s, known) ==
    IF s = << >> THEN << >>
    ELSE IF Head(s).nickname \in known
         THEN FilterSeq(Tail(s), known)
         ELSE << Head(s) >> \o FilterSeq(Tail(s), known)

\* a map that yields no nickname (it reads a column the rows do not have)
storedNicknames_none(rows) == { rows[i].nickname : i \in {} }

\* storedVotes.map(vote => vote.nickname)
storedNicknames(rows) == { rows[i].nickname : i \in 1..Len(rows) }

\* a votes table whose nickname column has no UNIQUE key: plain INSERT
insertQuery_noKey(rows, vote, t) ==
    Append(rows, [ nickname |-> vote.nickname, votes |-> vote.votes,
                   timestamp |-> t ])

\* ON DUPLICATE KEY UPDATE votes = VALUES(votes): overwrite
insertQuery_overwrite(rows, vote, t) ==
    IF \E i \in 1..Len(rows) : rows[i].nickname = vote.nickname
    THEN [ i \in 1..Len(rows) |->
             IF rows[i].nickname = vote.nickname
             THEN [ rows[i] EXCEPT !.votes = vote.votes ]
             ELSE rows[i] ]
    ELSE Append(rows, [ nickname |-> vote.nickname, votes |-> vote.votes,
                        timestamp |-> t ])

\* INSERT IGNORE: a duplicate key leaves the stored row as it is
insertQuery_ignore(rows, vote, t) ==
    IF \E i \in 1..Len(rows) : rows[i].nickname = vote.nickname
    THEN rows
    ELSE Append(rows, [ nickname |-> vote.nickname, votes |-> vote.votes,
                        timestamp |-> t ])

\* INSERT ... ON DUPLICATE KEY UPDATE votes = votes + VALUES(votes)
insertQuery(rows, vote, t) ==
    IF \E i \in 1..Len(rows) : rows[i].nickname = vote.nickname
    THEN [ i \in 1..Len(rows) |->
             IF rows[i].nickname = vote.nickname
             THEN [ rows[i] EXCEPT !.votes = @ + vote.votes ]
             ELSE rows[i] ]
    ELSE Append(rows, [ nickname |-> vote.nickname, votes |-> vote.votes,
                        timestamp |-> t ])

\* the votes column of a nickname's rows, summed (0 when there is none)
RECURSIVE SumVotes(_, _)
SumVotes(s, n) ==
    IF s = << >> THEN 0
    ELSE (IF Head(s).nickname = n THEN Head(s).votes ELSE 0) + SumVotes(Tail(s), n)


\* ------------------------------------------------------------------ Init
Init ==
    /\ initPc = "Uninitialized"
    /\ retries = 0
    /\ schema = FALSE
    /\ table = << >>
    /\ now = 0
    /\ payload \in [Sources -> Payloads]
    /\ pc = [c \in Cycles |-> "idle"]
    /\ src = [c \in Cycles |-> 0]
    /\ newVotes = [c \in Cycles |-> << >>]
    /\ result = [c \in Cycles |-> << >>]
    /\ pending = {}
    /\ startNicks = [c \in Cycles |-> {}]
    /\ log = [c \in Cycles |-> << >>]
    /\ written = [c \in Cycles |-> << >>]
    /\ issued = [n \in Nicknames |-> 0]
    /\ dropped = [n \in Nicknames |-> 0]
    /\ committed = [n \in Nicknames |-> 0]
    /\ persistFailed = {}
    /\ missed = {}
    /\ doneBefore = [c \in Cycles |-> {}]

\* ------------------------------------------------- initializeDatabase
\* the while test of line 36
loopTest(r) == r < maxRetries

\* the test of line 45 written with > instead of >=
ceilingReached_off(r) == r > maxRetries

\* the catch block's test of line 45
ceilingReached(r) == r >= maxRetries

\* the function returns: its frame, with the local retries, is gone
Return(outcome) ==
    /\ initPc' = outcome
    /\ retries' = 0

\* client.once('ready'): initializeDatabase() is called, the while loop is
\* entered and the first CREATE TABLE query is issued
InitStart ==
    /\ initPc = "Uninitialized"
    /\ IF loopTest(0)
       THEN initPc' = "Attempt" /\ retries' = 0
       ELSE Return("Degraded")
    /\ UNCHANGED payload
    /\ UNCHANGED << pollVars, storeVars, histVars >>

\* the try block without the return of line 40: the while test runs again
AttemptOk_noReturn ==
    /\ initPc = "Attempt"
    /\ schema' = TRUE
    /\ initPc' = "Attempt" /\ retries' = retries
    /\ UNCHANGED << table, now, pending, payload >>
    /\ UNCHANGED << pollVars, histVars >>

\* await db.query(createTableQuery) resolves: return (line 40)
AttemptOk ==
    /\ initPc = "Attempt"
    /\ schema' = TRUE
    /\ Return("Ready")
    /\ UNCHANGED << table, now, pending, payload >>
    /\ UNCHANGED << pollVars, histVars >>

\* await db.query(createTableQuery) rejects: the catch block; with the
\* ceiling reached no timer is set and the while test follows at once
AttemptFail ==
    /\ initPc = "Attempt"
    /\ IF ceilingReached(retries + 1)
       THEN IF loopTest(retries + 1)
            THEN initPc' = "Attempt" /\ retries' = retries + 1
            ELSE Return("Degraded")
       ELSE initPc' = "Delay" /\ retries' = retries + 1
    /\ UNCHANGED payload
    /\ UNCHANGED << pollVars, storeVars, histVars >>

\* the 5 s timer fires; the while test is evaluated and the next query issued
DelayElapsed ==
    /\ initPc = "Delay"
    /\ IF loopTest(retries)
       THEN initPc' = "Attempt" /\ retries' = retries
       ELSE Return("Degraded")
    /\ UNCHANGED payload
    /\ UNCHANGED << pollVars, storeVars, histVars >>

\* ------------------------------------------------------------ poll cycle
\* the awaited calls with no try block around them
tryBlocks_none(site) == << >>

\* the try blocks around each awaited call, innermost first
tryBlocks(site) ==
    CASE site = "fetch"   -> << "fetchVotesFromApi", "pollVotes" >>
      [] site = "query"   -> << "getStoredVotes", "fetchVotesFromApi", "pollVotes" >>
      [] site = "execute" -> << "saveVotesToDatabase", "fetchVotesFromApi", "pollVotes" >>

\* the innermost catch block rethrows: the caller's catch receives the error
caughtBy_rethrow(site) ==
    IF Len(tryBlocks(site)) < 2 THEN "none" ELSE tryBlocks(site)[2]

\* the function whose catch block receives an error thrown at the site
caughtBy(site) ==
    IF tryBlocks(site) = << >> THEN "none" ELSE Head(tryBlocks(site))

\* the for loop without the push of line 130
Advance_drop(c, votesFromApi) ==
    /\ result' = result
    /\ newVotes' = [newVotes EXCEPT ![c] = << >>]
    /\ IF src[c] < NumSources
       THEN /\ src' = [src EXCEPT ![c] = @ + 1]
            /\ pc' = [pc EXCEPT ![c] = "fetch"]
       ELSE /\ src' = src
            /\ pc' = [pc EXCEPT ![c] = "done"]

\* The for loop of pollVotes after fetchVotesFromApi returned votesFromApi for
\* the current source: push, then call fetchVotesFromApi for the next URL
\* (up to its await fetch) or return.
Advance(c, votesFromApi) ==
    /\ result' = [result EXCEPT ![c] = @ \o votesFromApi]
    /\ newVotes' = [newVotes EXCEPT ![c] = << >>]
    /\ IF src[c] < NumSources
       THEN /\ src' = [src EXCEPT ![c] = @ + 1]
            /\ pc' = [pc EXCEPT ![c] = "fetch"]
       ELSE /\ src' = src
            /\ pc' = [pc EXCEPT ![c] = "done"]

\* an error no try block catches: pollVotes rejects
Raise(c) ==
    /\ pc' = [pc EXCEPT ![c] = "raised"]
    /\ UNCHANGED << src, newVotes, result >>

\* a single try block around the whole for loop: the first error ends the poll
Unwind_abort(c, site) ==
    /\ pc' = [pc EXCEPT ![c] = "done"]
    /\ newVotes' = [newVotes EXCEPT ![c] = << >>]
    /\ UNCHANGED << src, result >>

\* an error thrown inside fetchVotesFromApi and not caught by the callee
Unwind(c, site) ==
    IF caughtBy(site) = "none" THEN Raise(c) ELSE Advance(c, << >>)

\* The ready handler registers the /voting command after initializeDatabase
\* returned (lines 157-169). interactionCreate with commandName 'voting':
\* pollVotes(apiUrls) starts and the first fetch is issued.
PollStart(c) ==
    /\ initPc \in {"Ready", "Degraded"}
    /\ pc[c] = "idle"
    /\ pc' = [pc EXCEPT ![c] = "fetch"]
    /\ src' = [src EXCEPT ![c] = 1]
    /\ startNicks' = [startNicks EXCEPT ![c] = storedNicknames(table)]
    /\ doneBefore' = [doneBefore EXCEPT ![c] = { d \in Cycles : pc[d] = "done" }]
    /\ UNCHANGED << newVotes, result, payload >>
    /\ UNCHANGED << log, written, issued, dropped, committed, persistFailed, missed >>
    /\ UNCHANGED << guardVars, storeVars >>

\* fetch resolves ok, the body parses and data.voters is an array:
\* getStoredVotes() is called
FetchOk(c) ==
    /\ pc[c] = "fetch"
    /\ pc' = [pc EXCEPT ![c] = "read"]
    /\ log' = [log EXCEPT ![c] = Append(@, "fetch")]
    /\ UNCHANGED << src, newVotes, result, payload >>
    /\ UNCHANGED << startNicks, written, issued, dropped, committed, persistFailed, missed, doneBefore >>
    /\ UNCHANGED << guardVars, storeVars >>

\* fetch or response.json() throws: the catch of line 117
NetworkFailure(c) ==
    /\ pc[c] = "fetch"
    /\ log' = [log EXCEPT ![c] = Append(@, "fetch")]
    /\ Unwind(c, "fetch")
    /\ UNCHANGED payload
    /\ UNCHANGED << startNicks, written, issued, dropped, committed, persistFailed, missed, doneBefore >>
    /\ UNCHANGED << guardVars, storeVars >>

\* fetchVotesFromApi without the test of line 89: the body of a non-2xx
\* answer is parsed and handled like any other
StatusFailure_unchecked(c) ==
    /\ pc[c] = "fetch"
    /\ pc' = [pc EXCEPT ![c] = "read"]
    /\ log' = [log EXCEPT ![c] = Append(@, "fetch")]
    /\ UNCHANGED << src, newVotes, result, payload >>
    /\ UNCHANGED << startNicks, written, issued, dropped, committed, persistFailed, missed, doneBefore >>
    /\ UNCHANGED << guardVars, storeVars >>

\* !response.ok: return [] (line 91)
StatusFailure(c) ==
    /\ pc[c] = "fetch"
    /\ log' = [log EXCEPT ![c] = Append(@, "fetch")]
    /\ Advance(c, << >>)
    /\ UNCHANGED payload
    /\ UNCHANGED << startNicks, written, issued, dropped, committed, persistFailed, missed, doneBefore >>
    /\ UNCHANGED << guardVars, storeVars >>

\* data.voters is not an array: return [] (line 115)
ShapeFailure(c) ==
    /\ pc[c] = "fetch"
    /\ log' = [log EXCEPT ![c] = Append(@, "fetch")]
    /\ Advance(c, << >>)
    /\ UNCHANGED payload
    /\ UNCHANGED << startNicks, written, issued, dropped, committed, persistFailed, missed, doneBefore >>
    /\ UNCHANGED << guardVars, storeVars >>

\* a batch collapsed to one statement per nickname, the last record winning
Statements_distinct(c, s, votes) ==
    { [cyc |-> c, src |-> s, idx |-> i, vote |-> votes[i]] :
        i \in { j \in 1..Len(votes) :
                  \A k \in (j + 1)..Len(votes) : votes[k].nickname # votes[j].nickname } }

\* the statements newVotes.map(...) hands to the pool
Statements(c, s, votes) ==
    { [cyc |-> c, src |-> s, idx |-> i, vote |-> votes[i]] : i \in 1..Len(votes) }

\* the filter run against the nicknames stored when the cycle started
Deduplicate_cycleSnapshot(c, rows, lg) ==
    LET known == startNicks[c]
        nv == FilterSeq(payload[src[c]], known)
    IN  IF Len(nv) > 0
        THEN /\ newVotes' = [newVotes EXCEPT ![c] = nv]
             /\ pending' = pending \cup Statements(c, src[c], nv)
             /\ issued' = [n \in Nicknames |-> issued[n] + SumVotes(nv, n)]
             /\ written' = [written EXCEPT ![c] = @ \o nv]
             /\ pc' = [pc EXCEPT ![c] = "save"]
             /\ log' = [log EXCEPT ![c] = Append(lg, "save")]
             /\ UNCHANGED << src, result >>
        ELSE /\ log' = [log EXCEPT ![c] = lg]
             /\ Advance(c, nv)
             /\ UNCHANGED << pending, issued, written >>

\* getStoredVotes returned rows: lines 99-112 up to the await of Promise.all;
\* lg is the cycle's log with the read in it
Deduplicate(c, rows, lg) ==
    LET known == storedNicknames(rows)
        nv == FilterSeq(payload[src[c]], known)
    IN  IF Len(nv) > 0
        THEN /\ newVotes' = [newVotes EXCEPT ![c] = nv]
             /\ pending' = pending \cup Statements(c, src[c], nv)
             /\ issued' = [n \in Nicknames |-> issued[n] + SumVotes(nv, n)]
             /\ written' = [written EXCEPT ![c] = @ \o nv]
             /\ pc' = [pc EXCEPT ![c] = "save"]
             /\ log' = [log EXCEPT ![c] = Append(lg, "save")]
             /\ UNCHANGED << src, result >>
        ELSE /\ log' = [log EXCEPT ![c] = lg]
             /\ Advance(c, nv)
             /\ UNCHANGED << pending, issued, written >>

\* SELECT nickname, votes FROM votes resolves
ReadOk(c) ==
    /\ pc[c] = "read"
    /\ schema
    /\ Deduplicate(c, table, Append(log[c], "read"))
    /\ UNCHANGED << schema, table, now, payload >>
    /\ UNCHANGED << startNicks, dropped, committed, persistFailed, missed, doneBefore >>
    /\ UNCHANGED guardVars

\* getStoredVotes without its try block: the rejection reaches the catch of
\* fetchVotesFromApi, which returns []
ReadFail_rethrow(c) ==
    /\ pc[c] = "read"
    /\ log' = [log EXCEPT ![c] = Append(@, "read")]
    /\ Advance(c, << >>)
    /\ UNCHANGED << pending, issued, written >>
    /\ missed' = IF table = << >> THEN missed ELSE missed \cup {c}
    /\ UNCHANGED << schema, table, now, payload >>
    /\ UNCHANGED << startNicks, dropped, committed, persistFailed, doneBefore >>
    /\ UNCHANGED guardVars

\* the SELECT rejects: the catch of line 61 makes getStoredVotes return []
ReadFail(c) ==
    /\ pc[c] = "read"
    /\ IF caughtBy("query") = "getStoredVotes"
       THEN Deduplicate(c, << >>, Append(log[c], "read"))
       ELSE /\ log' = [log EXCEPT ![c] = Append(@, "read")]
            /\ Unwind(c, "query")
            /\ UNCHANGED << pending, issued, written >>
    /\ missed' = IF table = << >> THEN missed ELSE missed \cup {c}
    /\ UNCHANGED << schema, table, now, payload >>
    /\ UNCHANGED << startNicks, dropped, committed, persistFailed, doneBefore >>
    /\ UNCHANGED guardVars

\* the cycle is suspended in await Promise.all(promises) on this statement's batch
Awaited(w) == pc[w.cyc] = "save" /\ src[w.cyc] = w.src

\* the statements of w's batch other than w that are still in flight
Siblings(w) == { v \in pending : v.cyc = w.cyc /\ v.src = w.src /\ v # w }

\* a rejection that takes the rest of its batch with it
afterRejection_cancel(w) == pending \ ({w} \cup Siblings(w))

\* what a rejected statement leaves in flight: every other statement, those
\* of its own batch included (Promise.all cancels nothing)
afterRejection(w) == pending \ {w}

\* a db.execute commits its row; when it was the last of an awaited batch,
\* Promise.all resolves, saveVotesToDatabase returns and fetchVotesFromApi
\* returns newVotes
ExecuteOk(w) ==
    /\ w \in pending
    /\ schema
    /\ table' = insertQuery(table, w.vote, now + 1)
    /\ now' = now + 1
    /\ pending' = pending \ {w}
    /\ committed' = [committed EXCEPT ![w.vote.nickname] = @ + w.vote.votes]
    /\ IF Awaited(w) /\ Siblings(w) = {}
       THEN Advance(w.cyc, newVotes[w.cyc])
       ELSE UNCHANGED << pc, src, newVotes, result >>
    /\ UNCHANGED << schema, payload >>
    /\ UNCHANGED << startNicks, log, written, issued, dropped, persistFailed, missed, doneBefore >>
    /\ UNCHANGED guardVars

\* a db.execute rejects; when its batch is awaited, Promise.all rejects at
\* once, the catch of line 79 logs, saveVotesToDatabase returns and
\* fetchVotesFromApi returns newVotes, while the batch's other statements
\* stay in flight
ExecuteFail(w) ==
    /\ w \in pending
    /\ pending' = afterRejection(w)
    /\ dropped' = [dropped EXCEPT ![w.vote.nickname] = @ + w.vote.votes]
    /\ persistFailed' = persistFailed \cup {w.cyc}
    /\ IF Awaited(w)
       THEN IF caughtBy("execute") = "saveVotesToDatabase"
            THEN Advance(w.cyc, newVotes[w.cyc])
            ELSE Unwind(w.cyc, "execute")
       ELSE UNCHANGED << pc, src, newVotes, result >>
    /\ UNCHANGED << schema, table, now, payload >>
    /\ UNCHANGED << startNicks, log, written, issued, committed, missed, doneBefore >>
    /\ UNCHANGED guardVars

\* ------------------------------------------------------- derived values
Done(c) == pc[c] = "done"

\* the votes stored under a nickname, over all its rows
StoredVotes(n) == SumVotes(table, n)

RECURSIVE SumStatements(_, _)
\* the votes of the statements of a set that carry nickname n
SumStatements(ws, n) ==
    IF ws = {} THEN 0
    ELSE LET w == CHOOSE v \in ws : TRUE
         IN  (IF w.vote.nickname = n THEN w.vote.votes ELSE 0)
             + SumStatements(ws \ {w}, n)

\* how often an event occurs in a log
Count(lg, op) == Cardinality({ i \in 1..Len(lg) : lg[i] = op })

\* the source an event of a log belongs to: the number of fetches up to it
SourceAt(lg, i) == Cardinality({ j \in 1..i : lg[j] = "fetch" })

\* the events of a log that belong to source s, in order
Segment(lg, s) ==
    LET I == { i \in 1..Len(lg) : SourceAt(lg, i) = s }
        lo == CHOOSE i \in I : \A j \in I : i <= j
    IN  IF I = {} THEN << >> ELSE [ k \in 1..Cardinality(I) |-> lg[lo + k - 1] ]

\* the sources whose fetch gave the cycle a voters array
FetchedOk(c) == { SourceAt(log[c], i) : i \in { j \in 1..Len(log[c]) : log[c][j] = "read" } }

\* the records of a sequence, as a set
Records(votes) == { votes[i] : i \in 1..Len(votes) }

A == << VoterRecord("x", 3) >>
B == << VoterRecord("x", 2), VoterRecord("y", 1) >>

Next ==
    \/ InitStart
    \/ AttemptOk
    \/ AttemptFail
    \/ DelayElapsed
    \/ \E c \in Cycles : PollStart(c)
    \/ \E c \in Cycles : FetchOk(c)
    \/ \E c \in Cycles : NetworkFailure(c)
    \/ \E c \in Cycles : StatusFailure(c)
    \/ \E c \in Cycles : ShapeFailure(c)
    \/ \E c \in Cycles : ReadOk(c)
    \/ \E c \in Cycles : ReadFail(c)
    \/ \E w \in pending : ExecuteOk(w)
    \/ \E w \in pending : ExecuteFail(w)

Spec == Init /\ [][Next]_vars

\* The program with a single /voting command: the one interactionCreate
\* event is the first cycle's.
NextOne ==
    \/ InitStart
    \/ AttemptOk
    \/ AttemptFail
    \/ DelayElapsed
    \/ PollStart(1)
    \/ FetchOk(1)
    \/ NetworkFailure(1)
    \/ StatusFailure(1)
    \/ ShapeFailure(1)
    \/ ReadOk(1)
    \/ ReadFail(1)
    \/ \E w \in pending : ExecuteOk(w)
    \/ \E w \in pending : ExecuteFail(w)

SpecOne == Init /\ [][NextOne]_vars


\* ================================================================ claims

\* C1 Uniqueness: in every reachable state, whatever cycles ran or overlap
\* and whichever statements committed or failed, no two rows of the votes
\* table carry the same nickname.
C1_Uniqueness ==
    \A i, j \in 1..Len(table) : table[i].nickname = table[j].nickname => i = j

\* two cycles upserted x (3 and 2 votes), a statement failed along the way
C1_Witness ==
    /\ \A c \in Cycles : Done(c)
    /\ persistFailed # {}
    /\ \E i \in 1..Len(table) : table[i].nickname = "x" /\ table[i].votes = 5
    /\ pending = {}

\* C2 Accumulation law: the votes stored in a nickname's row are the sum of
\* the counts of the upserts committed for that nickname: a after the first
\* upsert of an absent nickname, a + b after the second.
C2_AccumulationLaw ==
    /\ \A i \in 1..Len(table) : table[i].votes = committed[table[i].nickname]
    /\ \A n \in Nicknames : n \notin storedNicknames(table) => committed[n] = 0

\* x was upserted with 3 and with 2 votes, both committed, nothing else
C2_Witness ==
    /\ issued["x"] = 5
    /\ committed["x"] = 5
    /\ dropped["x"] = 0
    /\ StoredVotes("x") = 5

\* C3 Dedup correctness: no record a cycle returns carries a nickname that
\* was in the store when the cycle started, whatever reads fail.
C3_DedupCorrectness ==
    \A c \in Cycles : \A i \in 1..Len(result[c]) :
        result[c][i].nickname \notin startNicks[c]

\* cycle c had returned when cycle d started, every source gave it a voters
\* array and none of its statements failed
CleanBefore(c, d) ==
    /\ c \in doneBefore[d]
    /\ FetchedOk(c) = Sources
    /\ c \notin persistFailed

\* C4 Idempotence under no new data: a cycle that starts after another cycle
\* returned, the first having fetched every source and stored what it found,
\* and whose own reads see the stored rows, returns nothing and hands no
\* statement to the store.
C4_Idempotence ==
    \A c, d \in Cycles :
        (c # d /\ CleanBefore(c, d) /\ d \notin missed) =>
            /\ result[d] = << >>
            /\ written[d] = << >>
            /\ \A w \in pending : w.cyc # d

\* the first cycle returned and stored records; the second fetched every
\* source again and returned none
C4_Witness ==
    \E c, d \in Cycles :
        /\ c # d /\ CleanBefore(c, d) /\ d \notin missed
        /\ Len(result[c]) > 1
        /\ Done(d) /\ FetchedOk(d) = Sources
        /\ result[d] = << >>
        /\ \A n \in Nicknames : StoredVotes(n) = issued[n] /\ issued[n] > 0

\* C5 Source isolation: a finished cycle fetched every configured source,
\* whichever of them failed; no record of a source that answered is lost (it
\* is returned, or its nickname is stored); and when none of the cycle's
\* statements failed, every returned record's nickname is stored.
C5_SourceIsolation ==
    \A c \in Cycles :
        /\ Done(c) => Count(log[c], "fetch") = NumSources
        /\ \A s \in FetchedOk(c) : \A r \in Records(payload[s]) :
              \/ r \in Records(result[c] \o newVotes[c])
              \/ r.nickname \in storedNicknames(table)
        /\ (Done(c) /\ c \notin persistFailed) =>
              \A r \in Records(result[c]) : r.nickname \in storedNicknames(table)

\* a cycle lost its first source and still fetched the second, whose records
\* it returned and stored
C5_Witness ==
    \E c \in Cycles :
        /\ Done(c)
        /\ 1 \notin FetchedOk(c) /\ 2 \in FetchedOk(c)
        /\ result[c] = payload[2] /\ Len(result[c]) = 2
        /\ c \notin persistFailed
        /\ \A r \in Records(result[c]) : r.nickname \in storedNicknames(table)

\* C6 Retry bound: with every CREATE TABLE failing, initializeDatabase gives
\* up exactly when the fifth attempt fails (attempt number = retries + 1), a
\* new attempt is only ever the first one or follows a 5 s delay, no attempt
\* is made with five failures counted, and the function then has returned
\* for good; nothing is raised.
C6_RetryBound ==
    [][ /\ (initPc' = "Degraded" /\ initPc # "Degraded") =>
              (initPc = "Attempt" /\ retries + 1 = 5)
        /\ initPc' = "Attempt" => retries' + 1 <= 5
        /\ (initPc' = "Attempt" /\ initPc # "Attempt") =>
              \/ (initPc = "Uninitialized" /\ retries' = 0)
              \/ (initPc = "Delay" /\ retries' = retries)
        /\ (initPc = "Attempt" /\ initPc' = "Attempt") => retries' = retries
        /\ (initPc' = "Delay" /\ initPc # "Delay") =>
              (initPc = "Attempt" /\ retries' = retries + 1 /\ retries' < 5)
        /\ initPc = "Degraded" => initPc' = "Degraded"
        /\ initPc' \in {"Uninitialized", "Attempt", "Delay", "Ready", "Degraded"}
      ]_vars

\* the guard gave up and a poll cycle ran to its end afterwards
C6_Witness ==
    /\ initPc = "Degraded"
    /\ \E c \in Cycles : Done(c)

\* the scenario of the example: sources [A, B], one cycle, empty store at its
\* start, both sources answered, no statement failed, no read missed rows
ScenarioAB(c) ==
    /\ payload[1] = A /\ payload[2] = B
    /\ \A d \in Cycles \ {c} : pc[d] = "idle"
    /\ Done(c)
    /\ {1, 2} \subseteq FetchedOk(c)
    /\ c \notin persistFailed \cup missed

SegmentShapes ==
    { << "fetch" >>, << "fetch", "read" >>, << "fetch", "read", "save" >> }

C9_NoPropagation ==
    \A c \in Cycles :
        /\ pc[c] \in {"idle", "fetch", "read", "save", "done"}
        /\ pc[c] = "save" => \E w \in pending : w.cyc = c /\ w.src = src[c]
        /\ \A i \in 1..Len(result[c]) :
              \E s \in Sources : result[c][i] \in Records(payload[s])

\* Degraded guard, no table: a cycle lost a source, its read and its
\* statements failed, and it returned its records all the same
C9_Witness ==
    \E c \in Cycles :
        /\ initPc = "Degraded" /\ ~schema
        /\ Done(c)
        /\ c \in persistFailed
        /\ FetchedOk(c) # {} /\ FetchedOk(c) # Sources
        /\ result[c] # << >>

\* C10 Partial batch application: every vote handed to the store is in the
\* table, still in flight, or belonged to a statement that itself failed; a
\* failed statement takes no other statement's votes with it.
C10_PartialBatch ==
    \A n \in Nicknames :
        StoredVotes(n) + SumStatements(pending, n) + dropped[n] = issued[n]

\* batch B: the statement for x failed, the one for y is in the table, and
\* the cycle returned both records
C10_Witness ==
    \E c \in Cycles :
        /\ Done(c) /\ written[c] = B /\ result[c] = B
        /\ \A d \in Cycles \ {c} : pc[d] = "idle"
        /\ dropped["x"] = 2 /\ dropped["y"] = 0
        /\ StoredVotes("y") = 1 /\ "x" \notin storedNicknames(table)
        /\ pending = {}

\* C11 Monotone, never negative: at every step, for every nickname, the
\* stored votes after the step are at least the stored votes before it and
\* at least 0.
C11_Monotone ==
    [][ \A n \in Nicknames :
            /\ SumVotes(table', n) >= SumVotes(table, n)
            /\ SumVotes(table', n) >= 0 ]_vars

\* C12 lastUpdated follows accumulation: whenever a step changes the votes of
\* an existing row, the row's timestamp after the step is the time of that
\* write.
C12_LastUpdated ==
    [][ \A i \in 1..Len(table) :
            (i <= Len(table') /\ table'[i].votes # table[i].votes) =>
                table'[i].timestamp = now' ]_vars

\* the records a cycle fetched whose nickname had a row when the cycle started
Resighted(d) ==
    { r \in UNION { Records(payload[s]) : s \in FetchedOk(d) } :
        r.nickname \in startNicks[d] }

\* C13 as stated: every record a cycle fetched for a nickname that already
\* had a row when the cycle started is upserted by that cycle, adding its
\* votes to the row.
C13_Original ==
    \A d \in Cycles :
        Done(d) => \A r \in Resighted(d) : r \in Records(written[d])

\* C13 amended: a record whose nickname had a row when the cycle started is
\* handed to the store only by a cycle one of whose reads failed and hid the
\* stored rows; every other cycle filters it out, issues no statement for it
\* and returns without it.
C13_Amended ==
    \A d \in Cycles :
        d \notin missed =>
            /\ \A r \in Records(written[d]) : r.nickname \notin startNicks[d]
            /\ \A w \in pending : w.cyc = d => w.vote.nickname \notin startNicks[d]
            /\ \A r \in Records(result[d]) : r.nickname \notin startNicks[d]

\* x was stored with 3 votes when a later cycle started; that cycle fetched
\* x again from every source, its reads saw the row, and x still holds 3
C13_Witness ==
    \E c, d \in Cycles :
        /\ c # d /\ c \in doneBefore[d]
        /\ Done(d) /\ d \notin missed
        /\ FetchedOk(d) = Sources
        /\ \A s \in Sources : payload[s] = A
        /\ startNicks[d] = {"x"}
        /\ Resighted(d) # {}
        /\ written[d] = << >>
        /\ StoredVotes("x") = 3 /\ pending = {}

RECURSIVE SumWritten(_, _)
\* the votes for nickname n in the batches the cycles of a set handed to the store
SumWritten(cs, n) ==
    IF cs = {} THEN 0
    ELSE LET c == CHOOSE d \in cs : TRUE
         IN  SumVotes(written[c], n) + SumWritten(cs \ {c}, n)

\* the nicknames of the records of a sequence
NicknamesOf(votes) == { votes[i].nickname : i \in 1..Len(votes) }

\* C14 Cross-cycle race: with no store failure (no statement failed, no read
\* hid stored rows), two cycles hand the same nickname to the store only
\* when they overlap (neither had returned when the other started), and once
\* nothing is in flight the stored votes of a nickname are the sum of the
\* counts every cycle upserted for it: the counts of both racing cycles.
C14_CrossCycleRace ==
    (persistFailed = {} /\ missed = {}) =>
        /\ \A c, d \in Cycles :
              (c # d /\ NicknamesOf(written[c]) \cap NicknamesOf(written[d]) # {}) =>
                  c \notin doneBefore[d] /\ d \notin doneBefore[c]
        /\ pending = {} =>
              \A n \in Nicknames : StoredVotes(n) = SumWritten(Cycles, n)

\* two cycles over [A, nothing]: both read the empty table, both returned
\* x:3, both upserts committed, and x holds 6
C14_Witness ==
    \E c, d \in Cycles :
        /\ c # d /\ Done(c) /\ Done(d)
        /\ payload[1] = A /\ \A s \in Sources \ {1} : payload[s] = << >>
        /\ persistFailed = {} /\ missed = {}
        /\ FetchedOk(c) = Sources /\ FetchedOk(d) = Sources
        /\ result[c] = A /\ result[d] = A
        /\ written[c] = A /\ written[d] = A
        /\ pending = {}
        /\ StoredVotes("x") = 6

\* the guard is inside initializeDatabase: a query is in flight or the timer runs
Initializing == initPc \in {"Attempt", "Delay"}

\* C15 Guard state machine: the guard leaves Uninitialized only into
\* Initializing; the step at which CREATE TABLE succeeds (on attempt
\* retries + 1 <= 5, after retries failures and as many delays) takes it to
\* Ready at once; it becomes Degraded only when the fifth attempt in a row
\* fails; from Ready and from Degraded it never moves again, so no attempt
\* and no delay follows.
C15_GuardMachine ==
    [][ /\ initPc = "Uninitialized" => initPc' \in {"Uninitialized", "Attempt"}
        /\ Initializing => initPc' \in {"Attempt", "Delay", "Ready", "Degraded"}
        /\ Initializing => (~schema /\ retries \in 0..4)
        /\ initPc = "Delay" => retries >= 1
        /\ (initPc = "Attempt" /\ schema') => (initPc' = "Ready" /\ retries + 1 <= 5)
        /\ (initPc' = "Ready" /\ initPc # "Ready") => (initPc = "Attempt" /\ schema')
        /\ (initPc = "Attempt" /\ ~schema' /\ initPc' # "Attempt") =>
              /\ retries + 1 < 5 => (initPc' = "Delay" /\ retries' = retries + 1)
              /\ retries + 1 = 5 => initPc' = "Degraded"
        /\ (initPc = "Delay" /\ initPc' # "Delay") =>
              (initPc' = "Attempt" /\ retries' = retries)
        /\ initPc = "Ready" => (initPc' = "Ready" /\ schema')
        /\ initPc = "Degraded" => (initPc' = "Degraded" /\ ~schema')
      ]_vars

\* the guard is Ready and a poll cycle ran on the table it created
C15_Witness ==
    /\ initPc = "Ready" /\ schema
    /\ \E c \in Cycles : Done(c) /\ result[c] # << >>
    /\ table # << >>

\* a voters array with the same nickname twice
D == << VoterRecord("y", 1), VoterRecord("y", 2) >>

\* the first k elements of a sequence (all of it when it is shorter)
Prefix(s, k) == SubSeq(s, 1, IF Len(s) < k THEN Len(s) ELSE k)

\* the first source served D to cycle c, which is the only cycle running,
\* and its read was answered (with the empty table, or with an error)
ScenarioD(c) ==
    /\ payload[1] = D
    /\ \A d \in Cycles \ {c} : pc[d] = "idle"
    /\ 1 \in FetchedOk(c)

\* C16 Duplicates within one batch: with y unknown and the first source
\* serving [y:1, y:2], both records pass the filter and go to the store as
\* two statements, both are returned once the batch is over, and as long as
\* no statement for y failed the stored votes of y plus those still in
\* flight are 1 + 2, whichever statement commits first: 3 once both did.
C16_BatchDuplicates ==
    \A c \in Cycles :
        ScenarioD(c) =>
            /\ Prefix(written[c], 2) = D
            /\ (src[c] > 1 \/ Done(c)) => Prefix(result[c], 2) = D
            /\ (dropped["y"] = 0 /\ c \notin missed) =>
                  /\ StoredVotes("y") + SumStatements(pending, "y") = 3
                  /\ pending = {} => StoredVotes("y") = 3

\* the cycle over [D, D] returned both records of the first source, both
\* upserts committed and y holds 3
C16_Witness ==
    \E c \in Cycles :
        /\ ScenarioD(c) /\ payload[2] = D
        /\ Done(c) /\ FetchedOk(c) = Sources
        /\ result[c] = D
        /\ persistFailed = {} /\ missed = {} /\ pending = {}
        /\ table = << [nickname |-> "y", votes |-> 3, timestamp |-> 1] >>
        /\ now = 2

\* C17 Batch call completes before returning control: every statement in
\* flight belongs to a batch whose cycle is still suspended inside
\* saveVotesToDatabase for that batch; none is left in flight once the cycle
\* has gone on to the next source or returned.
C17_BatchComplete ==
    \A w \in pending : pc[w.cyc] = "save" /\ src[w.cyc] = w.src

\* the current source of cycle c ends in NetworkFailure, StatusFailure or
\* ShapeFailure
FetchFailure(c) == NetworkFailure(c) \/ StatusFailure(c) \/ ShapeFailure(c)

\* C18 A failing source leaves the store unchanged: the step in which a
\* source's fetch fails adds nothing to the cycle's result, neither reads
\* nor writes the store (no statement is issued, the table and the
\* statements in flight are what they were) and takes the cycle to the next
\* source or to its end.
C18_FailingSourceFrame ==
    [][ \A c \in Cycles :
            FetchFailure(c) =>
                /\ result'[c] = result[c]
                /\ table' = table /\ schema' = schema /\ now' = now
                /\ pending' = pending
                /\ written' = written /\ issued' = issued
                /\ pc'[c] \in {"fetch", "done"}
                /\ pc'[c] = "fetch" => src'[c] = src[c] + 1
                /\ pc'[c] = "done" => src[c] = NumSources
      ]_vars

\* the first source's records were stored and returned, then the second
\* source failed: the table and the result are those of the first source
C18_Witness ==
    \E c \in Cycles :
        /\ Done(c)
        /\ log[c] = << "fetch", "read", "save", "fetch" >>
        /\ payload[1] = B /\ payload[2] = D
        /\ result[c] = B /\ written[c] = B
        /\ StoredVotes("x") = 2 /\ StoredVotes("y") = 1
        /\ pending = {} /\ persistFailed = {}

\* C19 Returned does not imply persisted: a finished cycle has returned
\* every record it handed to the store, whether its statement committed or
\* failed; and a record a finished cycle returned whose nickname is (still)
\* absent from the table is returned again by every cycle that started
\* after it and fetched the same source.
C19_ReturnedNotPersisted ==
    \A c \in Cycles :
        Done(c) =>
            /\ \A r \in Records(written[c]) : r \in Records(result[c])
            /\ \A d \in Cycles :
                  (c \in doneBefore[d] /\ Done(d)) =>
                      \A s \in FetchedOk(c) \cap FetchedOk(d) :
                          \A r \in Records(payload[s]) :
                              (r \in Records(result[c])
                                  /\ r.nickname \notin storedNicknames(table)) =>
                                  r \in Records(result[d])

\* the upsert of x:3 failed in a cycle that returned x:3 all the same; the
\* next cycle read the table, returned x:3 again, and its upsert failed too
C19_Witness ==
    \E c, d \in Cycles :
        /\ c \in doneBefore[d] /\ Done(d)
        /\ payload[1] = A /\ \A s \in Sources \ {1} : payload[s] = << >>
        /\ FetchedOk(c) = Sources /\ FetchedOk(d) = Sources
        /\ {c, d} \subseteq persistFailed
        /\ result[c] = A /\ result[d] = A
        /\ dropped["x"] = 6
        /\ schema /\ table = << >> /\ pending = {}

\* C20 Store read failure degrades to an empty snapshot: the step in which
\* the read of the stored nicknames fails keeps every record the source
\* served, stored nicknames included, and hands each of them to the store as
\* a statement of its own; when the batch is over the cycle's result grows
\* by exactly those records.
C20_EmptySnapshot ==
    [][ \A c \in Cycles :
            /\ ReadFail(c) =>
                  LET fetched == payload[src[c]]
                  IN  IF fetched = << >>
                      THEN result'[c] = result[c] /\ pending' = pending
                      ELSE /\ pc'[c] = "save" /\ src'[c] = src[c]
                           /\ newVotes'[c] = fetched
                           /\ written'[c] = written[c] \o fetched
                           /\ pending' = pending \cup Statements(c, src[c], fetched)
                           /\ Cardinality(pending' \ pending) = Len(fetched)
                           /\ table' = table
            /\ (pc[c] = "save" /\ pc'[c] # "save") =>
                  result'[c] = result[c] \o newVotes[c]
      ]_vars

\* one cycle over [A, B]: the read for B failed with x:3 stored, so x:2 and
\* y:1 were both returned and upserted, and x holds 3 + 2
C20_Witness ==
    \E c \in Cycles :
        /\ Done(c) /\ c \in missed
        /\ payload[1] = A /\ payload[2] = B
        /\ log[c] = << "fetch", "read", "save", "fetch", "read", "save" >>
        /\ result[c] = A \o B /\ written[c] = A \o B
        /\ persistFailed = {} /\ pending = {}
        /\ StoredVotes("x") = 5 /\ StoredVotes("y") = 1

====
